---- MODULE Spec2Model ----
(***************************************************************************)
(* Usage statistics and calendar of the "Kitchen Log" recipe application:  *)
(* display_stats_and_calendar(recipes) of app_gui_guit.py, its caller in   *)
(* main (the "my log" tab), the stored recipes main reads in every script  *)
(* run, the session (user, current recipe) and the host clock.             *)
(*                                                                         *)
(* A calendar date is a tuple <<year, month, day>>; a created_at           *)
(* timestamp is a tuple <<year, month, day, hour>>; a recipe is a record   *)
(* with a created_at field.                                                 *)
(***************************************************************************)
EXTENDS Integers, Sequences, FiniteSets

VARIABLES
    store,             \* the recipes table: per user, the rows as inserted
    user,              \* st.session_state['user']
    current_recipe,    \* st.session_state['current_recipe']: none, ok or bad
    events,            \* the recipes list handed to display_stats_and_calendar
    clock,             \* the host's current date (datetime.date.today())
    ticks,             \* midnights passed since the start
    runs,              \* script runs started so far
    pc,                \* position of the script run
    today,             \* local: today
    cooked_dates,      \* local: cooked_dates
    this_month_count,  \* local: this_month_count
    idx,               \* number of recipes the for loop has consumed
    streak,            \* local: streak
    check_date,        \* local: check_date
    metrics,           \* the three st.metric values shown
    calendar_marks,    \* day number -> whether the day cell carries the mark
    tests,             \* evaluations of "check_date in cooked_dates" this run
    visits,            \* per recipe: executions of the loop body on it this run
    prev               \* the summary shown by the previous completed run

vars == <<store, user, current_recipe, events, clock, ticks, runs, pc, today, cooked_dates, this_month_count,
          idx, streak, check_date, metrics, calendar_marks, tests, visits, prev>>

session == <<store, user, current_recipe>>

locals == <<today, cooked_dates, this_month_count, idx, streak, check_date,
            metrics, calendar_marks, tests, visits>>

-----------------------------------------------------------------------------
(* Bounds of the model *)

MaxEvents == 2
MaxBack == 2
MaxTicks == 1
MaxRuns == 2

-----------------------------------------------------------------------------
(* Calendar arithmetic of datetime / calendar *)

NoDate == <<0, 0, 0>>
NoMetrics == [month |-> -1, streak |-> -1, total |-> -1]
NoSummary == [events |-> <<>>, today |-> NoDate, metrics |-> NoMetrics,
              marks |-> <<>>]

IsLeap(y) == (y % 4 = 0) /\ ((y % 100 # 0) \/ (y % 400 = 0))

DaysInMonth(y, m) ==
    IF m = 2 THEN (IF IsLeap(y) THEN 29 ELSE 28)
    ELSE IF m \in {4, 6, 9, 11} THEN 30 ELSE 31

DaysBeforeYear(y) ==
    (y - 1) * 365 + ((y - 1) \div 4) - ((y - 1) \div 100) + ((y - 1) \div 400)

RECURSIVE DaysBeforeMonth(_, _)
DaysBeforeMonth(y, m) ==
    IF m = 1 THEN 0 ELSE DaysBeforeMonth(y, m - 1) + DaysInMonth(y, m - 1)

ToOrdinal(d) == DaysBeforeYear(d[1]) + DaysBeforeMonth(d[1], d[2]) + d[3]

Weekday(d) == (ToOrdinal(d) + 6) % 7

PrevDaySameMonth(d) ==
    IF d[3] > 1 THEN <<d[1], d[2], d[3] - 1>>
    ELSE <<d[1], d[2], DaysInMonth(d[1], d[2])>>

PrevDay(d) ==
    IF d[3] > 1 THEN <<d[1], d[2], d[3] - 1>>
    ELSE IF d[2] > 1 THEN <<d[1], d[2] - 1, DaysInMonth(d[1], d[2] - 1)>>
    ELSE <<d[1] - 1, 12, 31>>

NextDay(d) ==
    IF d[3] < DaysInMonth(d[1], d[2]) THEN <<d[1], d[2], d[3] + 1>>
    ELSE IF d[2] < 12 THEN <<d[1], d[2] + 1, 1>>
    ELSE <<d[1] + 1, 1, 1>>

MonthCalendar(y, m) ==
    LET lead == Weekday(<<y, m, 1>>)
        n == DaysInMonth(y, m)
        nweeks == (lead + n + 6) \div 7
        cell(k) == IF k - lead >= 1 /\ k - lead <= n THEN k - lead ELSE 0
    IN  [w \in 1..nweeks |-> [c \in 1..7 |-> cell((w - 1) * 7 + c)]]

-----------------------------------------------------------------------------
(* Inputs *)

RefDates == {<<2024, 3, 1>>, <<2024, 1, 1>>, <<2024, 2, 15>>,
             <<2023, 2, 28>>, <<2024, 4, 30>>}

Hours == {9, 21}

RECURSIVE DaysBack(_, _)
DaysBack(d, k) == IF k = 0 THEN d ELSE DaysBack(PrevDay(d), k - 1)

CandidateDates(c) ==
    {DaysBack(c, k) : k \in 0..MaxBack} \cup {<<c[1] - 1, c[2], c[3]>>}

\* Every candidate date at the first hour, the start date at every hour.
Timestamps(c) ==
    {<<d[1], d[2], d[3], h>> :
        d \in CandidateDates(c),
        h \in {g \in Hours : \A f \in Hours : g <= f}}
        \cup {<<c[1], c[2], c[3], h>> : h \in Hours}

Users == {"u1", "u2"}
NoUser == "none"

RecipeLists(c) ==
    UNION {[1..n -> [created_at : Timestamps(c)]] : n \in 0..MaxEvents}

-----------------------------------------------------------------------------
(* Helpers of display_stats_and_calendar *)

DateOf(ts) == <<ts[1], ts[2], ts[3]>>

InThisMonthIgnoringYear(dt, t) == dt[2] = t[2]

InThisMonth(dt, t) == dt[1] = t[1] /\ dt[2] = t[2]

TotalDistinct(recipes) ==
    Cardinality({DateOf(recipes[k].created_at) : k \in 1..Len(recipes)})

TotalCount(recipes) == Len(recipes)

MarkedByDayNumber(t, day, cooked) == \E d \in cooked : d[3] = day

Marked(t, day, cooked) == <<t[1], t[2], day>> \in cooked

TsLeq(a, b) ==
    \/ a[1] < b[1]
    \/ a[1] = b[1] /\ a[2] < b[2]
    \/ a[1] = b[1] /\ a[2] = b[2] /\ a[3] < b[3]
    \/ a[1] = b[1] /\ a[2] = b[2] /\ a[3] = b[3] /\ a[4] <= b[4]

\* get_my_recipes: order("created_at", desc=True).
RECURSIVE InsertNewestFirst(_, _)
InsertNewestFirst(r, sorted) ==
    IF sorted = <<>> THEN <<r>>
    ELSE IF TsLeq(Head(sorted).created_at, r.created_at) THEN <<r>> \o sorted
    ELSE <<Head(sorted)>> \o InsertNewestFirst(r, Tail(sorted))

RECURSIVE NewestFirst(_)
NewestFirst(rows) ==
    IF rows = <<>> THEN <<>>
    ELSE InsertNewestFirst(Head(rows), NewestFirst(Tail(rows)))

-----------------------------------------------------------------------------
(* State machine *)

ResetLocals ==
    /\ today' = NoDate
    /\ cooked_dates' = {}
    /\ this_month_count' = 0
    /\ idx' = 0
    /\ streak' = 0
    /\ check_date' = NoDate
    /\ metrics' = NoMetrics
    /\ calendar_marks' = <<>>
    /\ tests' = 0
    /\ visits' = [k \in 1..Len(events) |-> 0]

\* A fresh session over a table in which the first user has saved recipes.
Init ==
    /\ clock \in RefDates
    /\ \E rows \in RecipeLists(clock) :
          store = [u \in Users |-> IF u = "u1" THEN rows ELSE <<>>]
    /\ user = NoUser
    /\ current_recipe = "none"
    /\ events = <<>>
    /\ ticks = 0
    /\ runs = 0
    /\ pc = "idle"
    /\ today = NoDate
    /\ cooked_dates = {}
    /\ this_month_count = 0
    /\ idx = 0
    /\ streak = 0
    /\ check_date = NoDate
    /\ metrics = NoMetrics
    /\ calendar_marks = <<>>
    /\ tests = 0
    /\ visits = [k \in 1..Len(events) |-> 0]
    /\ prev = NoSummary

\* The host clock passes midnight.
Tick ==
    /\ ticks < MaxTicks
    /\ ticks' = ticks + 1
    /\ clock' = NextDay(clock)
    /\ UNCHANGED <<session, events, runs, pc, locals, prev>>

\* The argument of display_stats_and_calendar is bound to a list.
Bind(recipes) ==
    /\ events' = recipes
    /\ tests' = 0
    /\ visits' = [k \in 1..Len(recipes) |-> 0]
    /\ UNCHANGED <<today, cooked_dates, this_month_count, idx, streak,
                   check_date, metrics, calendar_marks>>

\* display_stats_and_calendar called on the rows of a user as stored, in any
\* order and also when there are none.
Call ==
    /\ pc = "idle"
    /\ runs < MaxRuns
    /\ \E u \in Users : Bind(store[u])
    /\ pc' = "call"
    /\ runs' = runs + 1
    /\ UNCHANGED <<session, clock, ticks, prev>>

\* Lines 131-133: the function's prologue, with its read of the host clock.
Enter ==
    /\ pc = "call"
    /\ pc' = "loop"
    /\ cooked_dates' = {}
    /\ today' = clock
    /\ this_month_count' = 0
    /\ idx' = 0
    /\ UNCHANGED <<session, events, clock, ticks, runs, streak, check_date,
                   metrics, calendar_marks, tests, visits, prev>>

\* Lines 243-257: with no user, main shows the login screen and returns.
MainLoginScreen ==
    /\ pc = "idle"
    /\ user = NoUser
    /\ pc' = "loginscreen"
    /\ UNCHANGED <<session, events, clock, ticks, runs, locals, prev>>

\* Lines 35-40: a successful login sets the user and reruns the script.
LoginUser ==
    /\ pc = "loginscreen"
    /\ \E u \in Users : user' = u
    /\ pc' = "idle"
    /\ UNCHANGED <<store, current_recipe, events, clock, ticks, runs, locals,
                   prev>>

\* Lines 44-49: a successful sign-up sets the user, who has no recipes yet.
SignupUser ==
    /\ pc = "loginscreen"
    /\ \E u \in Users : store[u] = <<>> /\ user' = u
    /\ pc' = "idle"
    /\ UNCHANGED <<store, current_recipe, events, clock, ticks, runs, locals,
                   prev>>

\* Lines 103-117: the row inserted for the user; the store stamps it with
\* the time of the insert.
SaveRecipeToDb(rows, u, hour) ==
    [rows EXCEPT ![u] = Append(@, [created_at |-> <<clock[1], clock[2], clock[3], hour>>])]

\* Lines 119-122: the user's rows newest first, or [] when the query fails.
GetMyRecipes(rows, u, ok) == IF ok THEN NewestFirst(rows[u]) ELSE <<>>

\* Lines 259-318: a script run with a user, up to the end of the first tab.
\* The button pressed is none (or one that changes nothing here),
\* "generate" (line 281) or "save" (line 308, shown only below a current
\* recipe that could be displayed). generate_recipe_json raises, or returns
\* a recipe with the keys lines 291-301 read ("ok") or without them ("bad");
\* a bad current recipe ends this and every later run at line 291.
MainTabCreate ==
    /\ pc = "idle"
    /\ runs < MaxRuns
    /\ user # NoUser
    /\ \E button \in {"none", "generate", "save"}, hour \in Hours,
          answer \in {"raise", "ok", "bad"}, saved \in BOOLEAN :
          LET raised == button = "generate" /\ answer = "raise"
              cur == IF button = "generate" /\ ~raised THEN answer
                     ELSE current_recipe
          IN  /\ button = "save" => current_recipe = "ok"
              /\ current_recipe' = cur
              /\ IF raised \/ cur = "bad"
                 THEN /\ pc' = "aborted"
                      /\ store' = store
                 ELSE /\ pc' = "tab_log"
                      /\ store' = IF button = "save" /\ saved
                                  THEN SaveRecipeToDb(store, user, hour)
                                  ELSE store
    /\ runs' = runs + 1
    /\ UNCHANGED <<user, events, clock, ticks, locals, prev>>

\* Lines 321-340: the "my log" tab reads the stored recipes and calls
\* display_stats_and_calendar when there are any.
MainTabLog ==
    /\ pc = "tab_log"
    /\ \E fetched \in BOOLEAN :
          LET my_recipes == GetMyRecipes(store, user, fetched)
          IN  /\ Bind(my_recipes)
              /\ pc' = IF my_recipes # <<>> THEN "call" ELSE "norecords"
    /\ UNCHANGED <<session, clock, ticks, runs, prev>>

\* A variant of the loop body that consumes the list it iterates over.
LoopStepConsuming ==
    /\ pc = "loop"
    /\ events # <<>>
    /\ LET dt == DateOf(Head(events).created_at)
       IN  /\ cooked_dates' = cooked_dates \cup {dt}
           /\ this_month_count' =
                  IF InThisMonth(dt, today) THEN this_month_count + 1
                  ELSE this_month_count
    /\ events' = Tail(events)
    /\ idx' = 0
    /\ visits' = [k \in 1..Len(events') |-> 0]
    /\ UNCHANGED <<session, clock, ticks, runs, pc, today, streak, check_date,
                   metrics, calendar_marks, tests, prev>>

\* Lines 135-139: one iteration of "for r in recipes".
LoopStep ==
    /\ pc = "loop"
    /\ idx < Len(events)
    /\ LET dt == DateOf(events[idx + 1].created_at)
       IN  /\ cooked_dates' = cooked_dates \cup {dt}
           /\ this_month_count' =
                  IF InThisMonth(dt, today) THEN this_month_count + 1
                  ELSE this_month_count
    /\ idx' = idx + 1
    /\ visits' = [visits EXCEPT ![idx + 1] = @ + 1]
    /\ UNCHANGED <<session, events, clock, ticks, runs, pc, today, streak, check_date,
                   metrics, calendar_marks, tests, prev>>

\* A variant of the walk's set-up that counts the reference day untested.
LoopExitCountingToday ==
    /\ pc = "loop"
    /\ idx >= Len(events)
    /\ streak' = 1
    /\ check_date' = PrevDay(today)
    /\ pc' = "walk"
    /\ UNCHANGED <<session, events, clock, ticks, runs, today, cooked_dates,
                   this_month_count, idx, metrics, calendar_marks, tests,
                   visits, prev>>

\* Lines 141-142: the loop is exhausted, the walk is set up.
LoopExit ==
    /\ pc = "loop"
    /\ idx >= Len(events)
    /\ streak' = 0
    /\ check_date' = today
    /\ pc' = "walk"
    /\ UNCHANGED <<session, events, clock, ticks, runs, today, cooked_dates,
                   this_month_count, idx, metrics, calendar_marks, tests,
                   visits, prev>>

\* A variant of the walk that forgives a missing reference day.
WalkStepGrace ==
    /\ pc = "walk"
    /\ tests' = tests + 1
    /\ IF check_date \in cooked_dates
       THEN /\ streak' = streak + 1
            /\ check_date' = PrevDay(check_date)
            /\ pc' = pc
       ELSE IF check_date = today
       THEN /\ streak' = streak
            /\ check_date' = PrevDay(check_date)
            /\ pc' = pc
       ELSE /\ pc' = "metrics"
            /\ UNCHANGED <<streak, check_date>>
    /\ UNCHANGED <<session, events, clock, ticks, runs, today, cooked_dates,
                   this_month_count, idx, metrics, calendar_marks, visits, prev>>

\* A variant of the walk that scans back to the oldest cooked date.
WalkStepScan ==
    /\ pc = "walk"
    /\ tests' = tests + 1
    /\ IF \E d \in cooked_dates : ToOrdinal(d) <= ToOrdinal(check_date)
       THEN /\ streak' = IF check_date \in cooked_dates /\ streak + 1 = tests'
                         THEN streak + 1 ELSE streak
            /\ check_date' = PrevDay(check_date)
            /\ pc' = pc
       ELSE /\ pc' = "metrics"
            /\ UNCHANGED <<streak, check_date>>
    /\ UNCHANGED <<session, events, clock, ticks, runs, today, cooked_dates,
                   this_month_count, idx, metrics, calendar_marks, visits, prev>>

\* Lines 143-145: one evaluation of the while condition, and the body if it
\* holds.
WalkStep ==
    /\ pc = "walk"
    /\ tests' = tests + 1
    /\ IF check_date \in cooked_dates
       THEN /\ streak' = streak + 1
            /\ check_date' = PrevDay(check_date)
            /\ pc' = pc
       ELSE /\ pc' = "metrics"
            /\ UNCHANGED <<streak, check_date>>
    /\ UNCHANGED <<session, events, clock, ticks, runs, today, cooked_dates,
                   this_month_count, idx, metrics, calendar_marks, visits, prev>>

\* Lines 147-150: the three metrics.
ShowMetrics ==
    /\ pc = "metrics"
    /\ metrics' = [month |-> this_month_count, streak |-> streak,
                   total |-> TotalCount(events)]
    /\ pc' = "calendar"
    /\ UNCHANGED <<session, events, clock, ticks, runs, today, cooked_dates,
                   this_month_count, idx, streak, check_date, calendar_marks,
                   tests, visits, prev>>

\* A variant of the grid that assumes every month has 31 days.
CalendarCellsFixed(t, cooked) ==
    [day \in 1..31 |-> Marked(t, day, cooked)]

\* The day cells the calendar grid of month t shows, each with its mark.
CalendarCells(t, cooked) ==
    LET cal == MonthCalendar(t[1], t[2])
        days == {cal[w][c] : w \in DOMAIN cal, c \in 1..7} \ {0}
    IN  [day \in days |-> Marked(t, day, cooked)]

\* A variant of the calendar that asks the clock again for the month.
RenderCalendarRereading ==
    /\ pc = "calendar"
    /\ calendar_marks' = CalendarCells(clock, cooked_dates)
    /\ pc' = "done"
    /\ UNCHANGED <<session, events, clock, ticks, runs, today, cooked_dates,
                   this_month_count, idx, streak, check_date, metrics, tests,
                   visits, prev>>

\* Lines 153-172: the month grid.
RenderCalendar ==
    /\ pc = "calendar"
    /\ calendar_marks' = CalendarCells(today, cooked_dates)
    /\ pc' = "done"
    /\ UNCHANGED <<session, events, clock, ticks, runs, today, cooked_dates,
                   this_month_count, idx, streak, check_date, metrics, tests,
                   visits, prev>>

\* What the finished run showed, kept for comparison with the next run.
Shown ==
    IF pc = "done"
    THEN [events |-> events, today |-> today, metrics |-> metrics,
          marks |-> calendar_marks]
    ELSE prev

\* Line 323: the refresh button reruns the script; the page shown and the
\* locals of the finished run are gone.
Rerun ==
    /\ pc \in {"done", "norecords", "aborted"}
    /\ runs < MaxRuns
    /\ pc' = "idle"
    /\ prev' = Shown
    /\ ResetLocals
    /\ UNCHANGED <<session, events, clock, ticks, runs>>

\* Lines 53-56 and 263: the logout button clears the user and reruns the
\* script; the current recipe stays in the session.
LogoutUser ==
    /\ pc \in {"done", "norecords", "aborted"}
    /\ runs < MaxRuns
    /\ user # NoUser
    /\ user' = NoUser
    /\ pc' = "idle"
    /\ prev' = Shown
    /\ ResetLocals
    /\ UNCHANGED <<store, current_recipe, events, clock, ticks, runs>>

Compute == LoopStep \/ LoopExit \/ WalkStep \/ ShowMetrics \/ RenderCalendar

Next ==
    \/ Tick
    \/ Call
    \/ Enter
    \/ MainLoginScreen
    \/ LoginUser
    \/ SignupUser
    \/ MainTabCreate
    \/ MainTabLog
    \/ LoopStep
    \/ LoopExit
    \/ WalkStep
    \/ ShowMetrics
    \/ RenderCalendar
    \/ Rerun
    \/ LogoutUser

Spec == Init /\ [][Next]_vars

\* The function runs synchronously: once entered, it keeps executing.
FairSpec == Spec /\ WF_vars(Compute)

-----------------------------------------------------------------------------
(* Properties *)

\* The distinct calendar dates of the events, taken from the input itself.
EventDates == {DateOf(events[k].created_at) : k \in 1..Len(events)}

\* Some event falls on the j-th calendar day before the reference date.
HasBack(j) == \E d \in EventDates : ToOrdinal(d) = ToOrdinal(today) - j

\* The length of a month of the Gregorian calendar.
ActualDays(y, m) ==
    CASE m \in {1, 3, 5, 7, 8, 10, 12} -> 31
      [] m \in {4, 6, 9, 11} -> 30
      [] m = 2 /\ (y % 400 = 0 \/ (y % 4 = 0 /\ y % 100 # 0)) -> 29
      [] OTHER -> 28

Summarized == pc = "done"

\* C1: when the event dates contain the reference date and each of the k
\* days right before it but not the (k+1)-th day before it, the streak shown
\* is k+1, whatever other dates there are and across month and year ends.
C1_StreakCountsRun ==
    Summarized =>
        \A k \in 0..(MaxEvents + MaxBack + MaxTicks) :
            ((\A j \in 0..k : HasBack(j)) /\ ~HasBack(k + 1))
                => metrics.streak = k + 1

\* A walk that crossed a month (or year) end and stopped at a gap, with an
\* older, non-adjacent date present.
C1_Witness ==
    /\ Summarized
    /\ today[3] = 1
    /\ metrics.streak = 2
    /\ HasBack(0) /\ HasBack(1) /\ ~HasBack(2)
    /\ \E d \in EventDates : ToOrdinal(d) < ToOrdinal(today) - 2

\* C2: when no event falls on the reference date the streak shown is 0, even
\* if the days before it all have events.
C2_NoEventTodayNoStreak ==
    Summarized => (~HasBack(0) => metrics.streak = 0)

C2_Witness ==
    /\ Summarized
    /\ ~HasBack(0) /\ HasBack(1) /\ HasBack(2)
    /\ metrics.streak = 0

\* C3: the total shown is the number of elements of the events list, not the
\* number of distinct dates.
C3_TotalIsLength ==
    Summarized => metrics.total = Len(events)

\* Two events on the reference date at different hours: total 2, streak 1.
C3_Witness ==
    /\ Summarized
    /\ Len(events) = 2
    /\ DateOf(events[1].created_at) = today
    /\ DateOf(events[2].created_at) = today
    /\ events[1].created_at # events[2].created_at
    /\ metrics.total = 2
    /\ metrics.streak = 1

\* C4: the month count shown is the number of elements of the events list
\* whose date has the year and the month of the reference date.
C4_MonthCountPerElement ==
    Summarized =>
        metrics.month =
            Cardinality({k \in 1..Len(events) :
                           /\ events[k].created_at[1] = today[1]
                           /\ events[k].created_at[2] = today[2]})

\* Two equal events of this month and one of the same month a year earlier.
C4_Witness ==
    /\ Summarized
    /\ Len(events) = 3
    /\ events[1] = events[2]
    /\ events[1].created_at[1] = today[1] /\ events[1].created_at[2] = today[2]
    /\ events[3].created_at[1] # today[1] /\ events[3].created_at[2] = today[2]
    /\ metrics.month = 2

\* C5: the day numbers given a cell in the calendar are exactly 1..N, N the
\* number of days of the reference month in the reference year.
C5_CalendarCoversMonth ==
    Summarized => DOMAIN calendar_marks = 1..ActualDays(today[1], today[2])

C5_Witness ==
    /\ Summarized
    /\ today[1] = 2024 /\ today[2] = 2
    /\ DOMAIN calendar_marks = 1..29

\* C6: day d of the calendar is marked exactly when some event has the date
\* (reference year, reference month, d).
C6_MarkIffEventThatDay ==
    Summarized =>
        \A d \in DOMAIN calendar_marks :
            calendar_marks[d] <=>
                \E k \in 1..Len(events) :
                    /\ events[k].created_at[1] = today[1]
                    /\ events[k].created_at[2] = today[2]
                    /\ events[k].created_at[3] = d

\* An event on the same day number of another year leaves the day unmarked
\* while another day of the month is marked.
C6_Witness ==
    /\ Summarized
    /\ \E e \in EventDates :
          /\ e[1] # today[1]
          /\ e[3] \in DOMAIN calendar_marks
          /\ ~calendar_marks[e[3]]
    /\ \E d \in DOMAIN calendar_marks : calendar_marks[d]

\* C7: summarizing no events ends normally with total 0, month count 0,
\* streak 0 and every day of the reference month unmarked.
C7_EmptyIsAllZero ==
    (Summarized /\ events = <<>>) =>
        /\ metrics = [month |-> 0, streak |-> 0, total |-> 0]
        /\ DOMAIN calendar_marks = 1..ActualDays(today[1], today[2])
        /\ \A d \in DOMAIN calendar_marks : ~calendar_marks[d]

C7_Witness ==
    /\ Summarized
    /\ events = <<>>
    /\ today = <<2024, 2, 15>>
    /\ metrics.total = 0
    /\ DOMAIN calendar_marks = 1..29

\* C8 as stated: the caller supplies the events and nothing else, and two
\* computations given the same events show the same summary whatever the
\* host clock reads at each.
C8_ClockIndependent ==
    (Summarized /\ prev # NoSummary /\ prev.events = events) =>
        /\ metrics = prev.metrics
        /\ calendar_marks = prev.marks

\* C8 as amended: two computations on the same events whose single read of
\* the host clock, at the start, returned the same date show identical
\* summaries, also when the clock advances while one of them runs.
C8_SameReadSameSummary ==
    (Summarized /\ prev # NoSummary /\ prev.events = events
        /\ prev.today = today) =>
        /\ metrics = prev.metrics
        /\ calendar_marks = prev.marks

\* The second computation finished after midnight passed while it ran.
C8_Witness ==
    /\ Summarized
    /\ prev # NoSummary
    /\ prev.events = events
    /\ prev.today = today
    /\ clock # today
    /\ events # <<>>

\* C9: no step of the computation changes the events list it was given (a
\* list is bound only by the caller, before the function is entered), nor
\* the stored recipes.
C9_EventsNeverMutated ==
    [][/\ pc \notin {"idle", "tab_log"} => events' = events
       /\ pc \in {"loop", "walk", "metrics", "calendar"} => store' = store]_vars

\* A finished computation over a non-empty list that built its own values.
C9_Witness ==
    /\ Summarized
    /\ Len(events) = MaxEvents
    /\ cooked_dates # {}
    /\ check_date # today

\* C10: the walk makes at most (distinct event dates + 1) membership tests,
\* the aggregation pass visits each event exactly once, and the computation
\* ends.
C10_Terminates ==
    /\ [](tests <= Cardinality(EventDates) + 1)
    /\ [](pc \in {"walk", "metrics", "calendar", "done"}
            => \A k \in 1..Len(events) : visits[k] = 1)
    /\ [](\A k \in 1..Len(events) : visits[k] <= 1)
    /\ ((pc = "loop") ~> (pc = "done"))

\* The walk used its whole budget: every distinct date lies in the run.
C10_Witness ==
    /\ Summarized
    /\ Cardinality(EventDates) >= 2
    /\ tests = Cardinality(EventDates) + 1
    /\ \A k \in 1..Len(events) : visits[k] = 1

\* The days of the calendar that carry the mark.
MarkedDays == {d \in DOMAIN calendar_marks : calendar_marks[d]}

\* C11: the outputs are mutually consistent: streak <= number of distinct
\* event dates <= total; month count <= total; the number of marked days is
\* <= month count; and some day is marked exactly when month count >= 1.
C11_OutputsConsistent ==
    Summarized =>
        /\ metrics.streak <= Cardinality(EventDates)
        /\ Cardinality(EventDates) <= metrics.total
        /\ metrics.month <= metrics.total
        /\ Cardinality(MarkedDays) <= metrics.month
        /\ (MarkedDays # {}) <=> (metrics.month >= 1)

\* Every inequality strict: two events on the reference day and one of
\* another year.
C11_Witness ==
    /\ Summarized
    /\ metrics.streak >= 1
    /\ metrics.streak < Cardinality(EventDates)
    /\ Cardinality(EventDates) < metrics.total
    /\ metrics.month < metrics.total
    /\ Cardinality(MarkedDays) < metrics.month
    /\ MarkedDays # {}

====
